---- MODULE Spec2Model ----
(***************************************************************************)
(* The exam gRPC service of src/server.rs: a read-only record store behind *)
(* a reader/writer lock, the unary call GetExamResult, and the server-     *)
(* streaming call GetExamResultStream with its spawned producer task, its  *)
(* bounded mpsc channel and the consumer that drains the receiving end.    *)
(* Strings that the code formats (keys, progress labels, status messages)  *)
(* are sequences of one-character strings, so that format! is modelled as  *)
(* the concatenation it performs.                                          *)
(***************************************************************************)
EXTENDS Integers, Sequences, FiniteSets, TLC

\* ------------------------------------------------------------------ bounds
\* streaming calls in flight when calls run side by side
MaxStreams == 2
\* unary calls in flight
MaxUnary == 2
\* streaming calls in flight when a stream is studied on its own
MaxSolo == 1

\* ------------------------------------------------------- program constants
ChannelCapacity == 4
NumResults == 3
PacingInterval == 1

Streams == 1..MaxStreams
SoloStreams == 1..MaxSolo
Unaries == 1..MaxUnary

\* ------------------------------------------------------------ string data
Id123 == <<"1", "2", "3">>
Id456 == <<"4", "5", "6">>
Id999 == <<"9", "9", "9">>
Id123u == <<"1", "2", "3", "_">>
Math101 == <<"m", "a", "t", "h", "1", "0", "1">>
Phy101 == <<"p", "h", "y", "1", "0", "1">>
Physics101 == <<"p", "h", "y", "s", "i", "c", "s", "1", "0", "1">>
UMath101 == <<"_", "m", "a", "t", "h", "1", "0", "1">>
Empty == << >>

SeedKey1 == <<"1", "2", "3", "_", "m", "a", "t", "h", "1", "0", "1">>
SeedKey2 == <<"4", "5", "6", "_", "p", "h", "y", "1", "0", "1">>

SeedRecord1 ==
    [student_name |-> "John Doe", subject |-> "Math 101",
     marks_obtained |-> 95, total_marks |-> 100, grade |-> <<"A", "+">>]

SeedRecord2 ==
    [student_name |-> "Jane Smith", subject |-> "Physics 101",
     marks_obtained |-> 88, total_marks |-> 100, grade |-> <<"A">>]

\* ExamServiceImpl::new: the map the service starts with.
SeedData == (SeedKey1 :> SeedRecord1) @@ (SeedKey2 :> SeedRecord2)

NotFoundPrefix ==
    <<"N", "o", " ", "r", "e", "s", "u", "l", "t", " ", "f", "o", "u", "n",
      "d", " ", "f", "o", "r", " ", "k", "e", "y", ":", " ">>

MsgPrefix(i) ==
    CASE i = 1 -> <<"P", "r", "o", "c", "e", "s", "s", "i", "n", "g", " ",
                    "r", "e", "s", "u", "l", "t", " ", "f", "o", "r", " ">>
      [] i = 2 -> <<"S", "t", "i", "l", "l", " ", "w", "o", "r", "k", "i",
                    "n", "g", " ", "o", "n", " ">>
      [] i = 3 -> <<"C", "o", "m", "p", "l", "e", "t", "e", "d", " ", "r",
                    "e", "s", "u", "l", "t", " ", "f", "o", "r", " ">>

MsgSuffix(i) ==
    CASE i = 1 -> <<" ", "(", "1", "/", "3", ")">>
      [] i = 2 -> <<" ", "(", "2", "/", "3", ")">>
      [] i = 3 -> <<" ", "(", "3", "/", "3", ")">>

\* --------------------------------------------------------- pure functions
GetExamResultRequest(sid, eid) == [student_id |-> sid, exam_id |-> eid]

\* format!("{}_{}", req.student_id, req.exam_id)
Key(req) == req.student_id \o <<"_">> \o req.exam_id

\* simulated_results[i], built from the key of the call
SimulatedResult(i, key) == MsgPrefix(i) \o key \o MsgSuffix(i)

\* The record the producer wraps around a progress message.
\* A streamed record whose marks exceed its total.
StreamedRecordOverTotal(msg) ==
    [student_name |-> "Streamed", subject |-> "Simulation",
     marks_obtained |-> 110, total_marks |-> 100, grade |-> msg]

\* GetExamResultResponse { .. } built in the producer loop
StreamedRecord(msg) ==
    [student_name |-> "Streamed", subject |-> "Simulation",
     marks_obtained |-> 90, total_marks |-> 100, grade |-> msg]

OkOf(v) == [ok |-> TRUE, value |-> v]

\* A NotFound status whose message leaves the key out.
NotFoundWithoutKey(key) ==
    [ok |-> FALSE, code |-> "NotFound", message |-> NotFoundPrefix]

\* Status::not_found(format!("No result found for key: {}", key))
NotFound(key) ==
    [ok |-> FALSE, code |-> "NotFound", message |-> NotFoundPrefix \o key]

\* An item taken from the store when the store holds the key.
StreamItemFromStore(i, key) ==
    IF key \in DOMAIN SeedData
    THEN OkOf(SeedData[key])
    ELSE OkOf(StreamedRecord(SimulatedResult(i, key)))

\* The item the producer hands to the channel at position i.
StreamItem(i, key) == OkOf(StreamedRecord(SimulatedResult(i, key)))

\* A call that has not returned yet.
Pending == [ok |-> FALSE, code |-> "Pending"]

\* data.get(&key) and the two return paths of get_exam_result
Lookup(data, key) ==
    IF key \in DOMAIN data THEN OkOf(data[key]) ELSE NotFound(key)

\* ------------------------------------------------------------------ inputs
UnaryRequests ==
    { GetExamResultRequest(Id123, Math101),
      GetExamResultRequest(Id456, Phy101),
      GetExamResultRequest(Id999, Math101),
      GetExamResultRequest(Id123u, Math101),
      GetExamResultRequest(Id123, UMath101) }

StreamRequests ==
    { GetExamResultRequest(Id456, Physics101),
      GetExamResultRequest(Id123, Math101) }

NoRequest == [student_id |-> <<"?">>, exam_id |-> <<"?">>]

\* ------------------------------------------------------------------- state
VARIABLES
    exam_data,   \* the HashMap behind the RwLock
    readers,     \* number of read guards held on exam_data
    writer,      \* whether a write guard is held on exam_data
    uPc,         \* unary call u: "idle", "reading", "done"
    uReq,        \* its request
    uKey,        \* its key
    uResp,       \* what it returned
    sReq,        \* streaming call s: its request
    sKey,        \* its key, moved into the producer task
    sResp,       \* what the handler returned (Pending until it returns)
    pPc,         \* producer task: "none", "send", "sleep", "done"
    idx,         \* position of the producer in simulated_results (1..3)
    failed,      \* the producer saw tx.send fail and broke out of the loop
    sent,        \* number of items the channel has accepted from the producer
    sleepLeft,   \* ticks left of the producer's sleep
    slept,       \* ticks the producer has spent in its sleeps so far
    chan,        \* buffer of the mpsc channel
    rx,          \* receiving end: "none", "open", "dropped", "ended"
    received,    \* items the consumer has taken from the receiving end
    cPc,         \* client: "start", "unary", "stream", "consuming", "broken",
                 \* "done", "failed"
    cLog         \* what the client has printed, in order

uVars == <<uPc, uReq, uKey, uResp>>
lockVars == <<exam_data, readers, writer>>
pVars == <<pPc, idx, failed, sent>>
tVars == <<sleepLeft, slept>>
cVars == <<cPc, cLog>>
sVars == <<sReq, sKey, sResp, pPc, idx, failed, sent, sleepLeft, slept, chan, rx, received>>
vars == <<exam_data, readers, writer, uPc, uReq, uKey, uResp,
          sReq, sKey, sResp, pPc, idx, failed, sent, sleepLeft, slept, chan, rx,
          received, cPc, cLog>>

Init ==
    /\ exam_data = SeedData
    /\ readers = 0
    /\ writer = FALSE
    /\ uPc = [u \in Unaries |-> "idle"]
    /\ uReq = [u \in Unaries |-> NoRequest]
    /\ uKey = [u \in Unaries |-> Empty]
    /\ uResp = [u \in Unaries |-> Pending]
    /\ sReq = [s \in Streams |-> NoRequest]
    /\ sKey = [s \in Streams |-> Empty]
    /\ sResp = [s \in Streams |-> Pending]
    /\ pPc = [s \in Streams |-> "none"]
    /\ idx = [s \in Streams |-> 1]
    /\ failed = [s \in Streams |-> FALSE]
    /\ sent = [s \in Streams |-> 0]
    /\ sleepLeft = [s \in Streams |-> 0]
    /\ slept = [s \in Streams |-> 0]
    /\ chan = [s \in Streams |-> << >>]
    /\ rx = [s \in Streams |-> "none"]
    /\ received = [s \in Streams |-> << >>]
    /\ cPc = "start"
    /\ cLog = << >>

\* ------------------------------------------------------------- unary call
\* get_exam_result up to the await of the read guard: the key is formatted
\* and the shared read access is taken (granted while no writer holds it).
UnaryCall(u, req) ==
    /\ uPc[u] = "idle"
    /\ \A v \in Unaries : v < u => uPc[v] # "idle"
    /\ ~writer
    /\ uPc' = [uPc EXCEPT ![u] = "reading"]
    /\ uReq' = [uReq EXCEPT ![u] = req]
    /\ uKey' = [uKey EXCEPT ![u] = Key(req)]
    /\ readers' = readers + 1
    /\ UNCHANGED <<cVars, exam_data, writer, uResp, sVars>>

\* A return path that keeps the read guard when the key is missing.
UnaryReturnLeakOnMiss(u) ==
    /\ uPc[u] = "reading"
    /\ uResp' = [uResp EXCEPT ![u] = Lookup(exam_data, uKey[u])]
    /\ uPc' = [uPc EXCEPT ![u] = "done"]
    /\ readers' = IF uKey[u] \in DOMAIN exam_data THEN readers - 1 ELSE readers
    /\ UNCHANGED <<cVars, exam_data, writer, uReq, uKey, sVars>>

\* A return path that takes write access and caches a miss in the store.
UnaryReturnCachingMiss(u) ==
    /\ uPc[u] = "reading"
    /\ uResp' = [uResp EXCEPT ![u] = Lookup(exam_data, uKey[u])]
    /\ uPc' = [uPc EXCEPT ![u] = "done"]
    /\ readers' = readers - 1
    /\ exam_data' = IF uKey[u] \in DOMAIN exam_data THEN exam_data
                    ELSE exam_data @@ (uKey[u] :> SeedRecord1)
    /\ UNCHANGED <<cVars, writer, uReq, uKey, sVars>>

\* get_exam_result from the lookup to the return: the record is cloned or the
\* NotFound status built, and the read guard is dropped on either path.
UnaryReturn(u) ==
    /\ uPc[u] = "reading"
    /\ uResp' = [uResp EXCEPT ![u] = Lookup(exam_data, uKey[u])]
    /\ uPc' = [uPc EXCEPT ![u] = "done"]
    /\ readers' = readers - 1
    /\ UNCHANGED <<cVars, exam_data, writer, uReq, uKey, sVars>>

\* --------------------------------------------------------- streaming call
\* get_exam_result_stream up to tokio::spawn: the key is formatted, the
\* channel is created and the producer task starts to run on its own.
StreamCall(s, req) ==
    /\ pPc[s] = "none"
    /\ \A t \in Streams : t < s => pPc[t] # "none"
    /\ sReq' = [sReq EXCEPT ![s] = req]
    /\ sKey' = [sKey EXCEPT ![s] = Key(req)]
    /\ pPc' = [pPc EXCEPT ![s] = "send"]
    /\ idx' = [idx EXCEPT ![s] = 1]
    /\ rx' = [rx EXCEPT ![s] = "open"]
    /\ chan' = [chan EXCEPT ![s] = << >>]
    /\ UNCHANGED <<cVars, lockVars, uVars, sResp, failed, sent, tVars, received>>

\* A handler that answers from the store and reports a missing key.
StreamReturnLookup(s) ==
    /\ pPc[s] # "none"
    /\ sResp[s] = Pending
    /\ sResp' = [sResp EXCEPT ![s] =
                    IF sKey[s] \in DOMAIN exam_data
                    THEN OkOf("ReceiverStream") ELSE NotFound(sKey[s])]
    /\ UNCHANGED <<cVars, lockVars, uVars, sReq, sKey, pVars, tVars, chan, rx, received>>

\* A handler that waits for the producer task before it returns.
StreamReturnAfterJoin(s) ==
    /\ pPc[s] = "done"
    /\ sResp[s] = Pending
    /\ sResp' = [sResp EXCEPT ![s] = OkOf("ReceiverStream")]
    /\ UNCHANGED <<cVars, lockVars, uVars, sReq, sKey, pVars, tVars, chan, rx, received>>

\* The handler returns Ok(Response::new(ReceiverStream::new(rx))).
StreamReturn(s) ==
    /\ pPc[s] # "none"
    /\ sResp[s] = Pending
    /\ sResp' = [sResp EXCEPT ![s] = OkOf("ReceiverStream")]
    /\ UNCHANGED <<cVars, lockVars, uVars, sReq, sKey, pVars, tVars, chan, rx, received>>

\* The loop body ending the task right after the last message, unslept.
ProducerSendNoFinalSleep(s) ==
    /\ pPc[s] = "send"
    /\ IF rx[s] # "open"
       THEN /\ failed' = [failed EXCEPT ![s] = TRUE]
            /\ pPc' = [pPc EXCEPT ![s] = "done"]
            /\ UNCHANGED <<chan, sent, tVars>>
       ELSE /\ Len(chan[s]) < ChannelCapacity
            /\ chan' = [chan EXCEPT ![s] = Append(@, StreamItem(idx[s], sKey[s]))]
            /\ sent' = [sent EXCEPT ![s] = @ + 1]
            /\ IF idx[s] < NumResults
               THEN /\ pPc' = [pPc EXCEPT ![s] = "sleep"]
                    /\ sleepLeft' = [sleepLeft EXCEPT ![s] = PacingInterval]
               ELSE /\ pPc' = [pPc EXCEPT ![s] = "done"]
                    /\ UNCHANGED sleepLeft
            /\ UNCHANGED slept
            /\ UNCHANGED failed
    /\ UNCHANGED <<cVars, lockVars, uVars, sReq, sKey, sResp, idx, rx, received>>

\* The loop body over a channel with room for fewer items than the sequence.
ProducerSendSmallChannel(s) ==
    /\ pPc[s] = "send"
    /\ IF rx[s] # "open"
       THEN /\ failed' = [failed EXCEPT ![s] = TRUE]
            /\ pPc' = [pPc EXCEPT ![s] = "done"]
            /\ UNCHANGED <<chan, sent, tVars>>
       ELSE /\ Len(chan[s]) < NumResults - 1
            /\ chan' = [chan EXCEPT ![s] = Append(@, StreamItem(idx[s], sKey[s]))]
            /\ sent' = [sent EXCEPT ![s] = @ + 1]
            /\ pPc' = [pPc EXCEPT ![s] = "sleep"]
            /\ sleepLeft' = [sleepLeft EXCEPT ![s] = PacingInterval]
            /\ UNCHANGED slept
            /\ UNCHANGED failed
    /\ UNCHANGED <<cVars, lockVars, uVars, sReq, sKey, sResp, idx, rx, received>>

\* The loop body with the send error ignored: the loop sleeps and goes on.
ProducerSendIgnoringError(s) ==
    /\ pPc[s] = "send"
    /\ IF rx[s] # "open"
       THEN /\ pPc' = [pPc EXCEPT ![s] = "sleep"]
            /\ sleepLeft' = [sleepLeft EXCEPT ![s] = PacingInterval]
            /\ UNCHANGED slept
            /\ UNCHANGED <<chan, sent, failed>>
       ELSE /\ Len(chan[s]) < ChannelCapacity
            /\ chan' = [chan EXCEPT ![s] = Append(@, StreamItem(idx[s], sKey[s]))]
            /\ sent' = [sent EXCEPT ![s] = @ + 1]
            /\ pPc' = [pPc EXCEPT ![s] = "sleep"]
            /\ sleepLeft' = [sleepLeft EXCEPT ![s] = PacingInterval]
            /\ UNCHANGED slept
            /\ UNCHANGED failed
    /\ UNCHANGED <<cVars, lockVars, uVars, sReq, sKey, sResp, idx, rx, received>>

\* The loop body on a channel that accepts items after its receiving end
\* is gone.
ProducerSendToClosed(s) ==
    /\ pPc[s] = "send"
    /\ Len(chan[s]) < ChannelCapacity
    /\ chan' = [chan EXCEPT ![s] = Append(@, StreamItem(idx[s], sKey[s]))]
    /\ sent' = [sent EXCEPT ![s] = @ + 1]
    /\ pPc' = [pPc EXCEPT ![s] = "sleep"]
    /\ sleepLeft' = [sleepLeft EXCEPT ![s] = PacingInterval]
    /\ UNCHANGED slept
    /\ UNCHANGED <<cVars, lockVars, uVars, sReq, sKey, sResp, idx, failed, rx, received>>

\* The loop body with one channel shared by all calls.
ProducerSendShared(s) ==
    /\ pPc[s] = "send"
    /\ IF rx[1] # "open"
       THEN /\ failed' = [failed EXCEPT ![s] = TRUE]
            /\ pPc' = [pPc EXCEPT ![s] = "done"]
            /\ UNCHANGED <<chan, sent, tVars>>
       ELSE /\ Len(chan[1]) < ChannelCapacity
            /\ chan' = [chan EXCEPT ![1] = Append(@, StreamItem(idx[s], sKey[s]))]
            /\ sent' = [sent EXCEPT ![s] = @ + 1]
            /\ pPc' = [pPc EXCEPT ![s] = "sleep"]
            /\ sleepLeft' = [sleepLeft EXCEPT ![s] = PacingInterval]
            /\ UNCHANGED slept
            /\ UNCHANGED failed
    /\ UNCHANGED <<cVars, lockVars, uVars, sReq, sKey, sResp, idx, rx, received>>

\* The loop body on an unbounded channel, sending every message built so
\* far instead of the current one.
ProducerSendAccumulated(s) ==
    /\ pPc[s] = "send"
    /\ IF rx[s] # "open"
       THEN /\ failed' = [failed EXCEPT ![s] = TRUE]
            /\ pPc' = [pPc EXCEPT ![s] = "done"]
            /\ UNCHANGED <<chan, sent, tVars>>
       ELSE /\ chan' = [chan EXCEPT ![s] =
                          @ \o [i \in 1..idx[s] |-> StreamItem(i, sKey[s])]]
            /\ sent' = [sent EXCEPT ![s] = @ + idx[s]]
            /\ pPc' = [pPc EXCEPT ![s] = "sleep"]
            /\ sleepLeft' = [sleepLeft EXCEPT ![s] = PacingInterval]
            /\ UNCHANGED slept
            /\ UNCHANGED failed
    /\ UNCHANGED <<cVars, lockVars, uVars, sReq, sKey, sResp, idx, rx, received>>

\* tx.send(..).await of the loop body: an error when the receiving end is
\* gone (the loop breaks and the task ends), the item enqueued when the
\* buffer has room, and otherwise the task waits.
ProducerSend(s) ==
    /\ pPc[s] = "send"
    /\ IF rx[s] # "open"
       THEN /\ failed' = [failed EXCEPT ![s] = TRUE]
            /\ pPc' = [pPc EXCEPT ![s] = "done"]
            /\ UNCHANGED <<chan, sent, tVars>>
       ELSE /\ Len(chan[s]) < ChannelCapacity
            /\ chan' = [chan EXCEPT ![s] = Append(@, StreamItem(idx[s], sKey[s]))]
            /\ sent' = [sent EXCEPT ![s] = @ + 1]
            /\ pPc' = [pPc EXCEPT ![s] = "sleep"]
            /\ sleepLeft' = [sleepLeft EXCEPT ![s] = PacingInterval]
            /\ UNCHANGED slept
            /\ UNCHANGED failed
    /\ UNCHANGED <<cVars, lockVars, uVars, sReq, sKey, sResp, idx, rx, received>>

\* The loop leaving out the message after the current one.
ProducerWakeSkipping(s) ==
    /\ pPc[s] = "sleep"
    /\ sleepLeft[s] = 0
    /\ IF idx[s] < NumResults
       THEN /\ idx' = [idx EXCEPT ![s] = IF @ + 2 <= NumResults THEN @ + 2 ELSE NumResults]
            /\ pPc' = [pPc EXCEPT ![s] = "send"]
       ELSE /\ pPc' = [pPc EXCEPT ![s] = "done"]
            /\ UNCHANGED idx
    /\ UNCHANGED <<cVars, lockVars, uVars, sReq, sKey, sResp, failed, sent, tVars, chan, rx, received>>

\* A sleep that returns before its interval has passed.
ProducerWakeEarly(s) ==
    /\ pPc[s] = "sleep"
    /\ IF idx[s] < NumResults
       THEN /\ idx' = [idx EXCEPT ![s] = @ + 1]
            /\ pPc' = [pPc EXCEPT ![s] = "send"]
       ELSE /\ pPc' = [pPc EXCEPT ![s] = "done"]
            /\ UNCHANGED idx
    /\ UNCHANGED <<cVars, lockVars, uVars, sReq, sKey, sResp, failed, sent, tVars, chan, rx, received>>

\* The loop going on without taking the next message.
ProducerWakeSameMessage(s) ==
    /\ pPc[s] = "sleep"
    /\ sleepLeft[s] = 0
    /\ IF sent[s] < NumResults
       THEN /\ pPc' = [pPc EXCEPT ![s] = "send"]
       ELSE /\ pPc' = [pPc EXCEPT ![s] = "done"]
    /\ UNCHANGED <<cVars, lockVars, uVars, sReq, sKey, sResp, idx, failed, sent, tVars, chan, rx, received>>

\* sleep(Duration::from_secs(1)).await completes: the loop takes the next
\* message, or ends after the last one and the task (with tx) is dropped.
ProducerWake(s) ==
    /\ pPc[s] = "sleep"
    /\ sleepLeft[s] = 0
    /\ IF idx[s] < NumResults
       THEN /\ idx' = [idx EXCEPT ![s] = @ + 1]
            /\ pPc' = [pPc EXCEPT ![s] = "send"]
       ELSE /\ pPc' = [pPc EXCEPT ![s] = "done"]
            /\ UNCHANGED idx
    /\ UNCHANGED <<cVars, lockVars, uVars, sReq, sKey, sResp, failed, sent, tVars, chan, rx, received>>

\* One tick of the clock: every running sleep gets one tick closer to its end.
Tick ==
    /\ \E s \in Streams : sleepLeft[s] > 0
    /\ sleepLeft' = [s \in Streams |-> IF sleepLeft[s] > 0 THEN sleepLeft[s] - 1 ELSE 0]
    /\ slept' = [s \in Streams |-> IF sleepLeft[s] > 0 THEN slept[s] + 1 ELSE slept[s]]
    /\ UNCHANGED <<cVars, lockVars, uVars, sReq, sKey, sResp, pVars, chan, rx, received>>

\* ---------------------------------------------------------------- consumer
\* The transport polls the ReceiverStream and gets the next buffered item.
ConsumerRecv(s) ==
    /\ sResp[s] # Pending
    /\ rx[s] = "open"
    /\ chan[s] # << >>
    /\ received' = [received EXCEPT ![s] = Append(@, Head(chan[s]))]
    /\ chan' = [chan EXCEPT ![s] = Tail(@)]
    /\ UNCHANGED <<cVars, lockVars, uVars, sReq, sKey, sResp, pVars, tVars, rx>>

\* The transport polls the ReceiverStream and gets None: the buffer is empty
\* and the sending end is gone.
ConsumerEnd(s) ==
    /\ sResp[s] # Pending
    /\ rx[s] = "open"
    /\ chan[s] = << >>
    /\ pPc[s] = "done"
    /\ rx' = [rx EXCEPT ![s] = "ended"]
    /\ UNCHANGED <<cVars, lockVars, uVars, sReq, sKey, sResp, pVars, tVars, chan, received>>

\* The caller goes away: the transport drops the ReceiverStream, which closes
\* the channel and discards what is still buffered.
ConsumerDisconnect(s) ==
    /\ sResp[s] # Pending
    /\ rx[s] = "open"
    /\ rx' = [rx EXCEPT ![s] = "dropped"]
    /\ chan' = [chan EXCEPT ![s] = << >>]
    /\ UNCHANGED <<cVars, lockVars, uVars, sReq, sKey, sResp, pVars, tVars, received>>

\* ------------------------------------------------------------------ client
\* The two requests the client builds.
ClientUnaryRequest == GetExamResultRequest(Id123, Math101)

ClientStreamRequest == GetExamResultRequest(Id456, Physics101)

\* The Err item the client's stream yields when the connection is lost.
StreamError == [ok |-> FALSE, code |-> "StreamError"]

IsOk(e) == e.ok

\* The stream elements the client has printed, in the order it printed them
\* (the first line of its output is the unary response).
ClientItems == IF cLog = << >> THEN << >> ELSE SelectSeq(Tail(cLog), IsOk)

\* Whether the client has printed a stream error.
ClientSawError == \E i \in 1..Len(cLog) : ~cLog[i].ok

\* client.get_exam_result(request) is issued.
ClientCallUnary ==
    /\ cPc = "start"
    /\ cPc' = "unary"
    /\ UNCHANGED <<cLog, lockVars, uVars, sVars>>

\* The server takes up the client's unary call.
ServeUnary ==
    /\ cPc = "unary"
    /\ UnaryCall(1, ClientUnaryRequest)

\* .await? on the unary call: the response is printed and the streaming call
\* is issued, or an error status ends main through the ? operator.
ClientUnaryReturn ==
    /\ cPc = "unary"
    /\ uPc[1] = "done"
    /\ IF uResp[1].ok
       THEN /\ cLog' = Append(cLog, uResp[1])
            /\ cPc' = "stream"
       ELSE /\ cPc' = "failed"
            /\ UNCHANGED cLog
    /\ UNCHANGED <<lockVars, uVars, sVars>>

\* .await? on the unary call when the call fails in transport.
ClientUnaryError ==
    /\ cPc = "unary"
    /\ cPc' = "failed"
    /\ UNCHANGED <<cLog, lockVars, uVars, sVars>>

\* The server takes up the client's streaming call.
ServeStream ==
    /\ cPc = "stream"
    /\ StreamCall(1, ClientStreamRequest)

\* .await?.into_inner() on the streaming call: the client holds the stream.
ClientStreamOpen ==
    /\ cPc = "stream"
    /\ sResp[1] # Pending
    /\ cPc' = "consuming"
    /\ UNCHANGED <<cLog, lockVars, uVars, sVars>>

\* .await? on the streaming call when the call fails in transport.
ClientStreamError ==
    /\ cPc = "stream"
    /\ cPc' = "failed"
    /\ UNCHANGED <<cLog, lockVars, uVars, sVars>>

\* An Err item that makes the client leave its loop.
ClientNextErrStops ==
    /\ cPc = "consuming"
    /\ rx[1] = "dropped"
    /\ Len(ClientItems) = Len(received[1])
    /\ ~ClientSawError
    /\ cLog' = Append(cLog, StreamError)
    /\ cPc' = "done"
    /\ UNCHANGED <<lockVars, uVars, sVars>>

\* stream.next().await yields Some(Ok(reply)): the next element that has
\* arrived is printed.
ClientNextOk ==
    /\ cPc = "consuming"
    /\ Len(ClientItems) < Len(received[1])
    /\ cLog' = Append(cLog, received[1][Len(ClientItems) + 1])
    /\ UNCHANGED <<cPc, lockVars, uVars, sVars>>

\* stream.next().await yields Some(Err(e)) after the connection was lost:
\* the error is printed and the loop goes on.
ClientNextErr ==
    /\ cPc = "consuming"
    /\ rx[1] = "dropped"
    /\ Len(ClientItems) = Len(received[1])
    /\ ~ClientSawError
    /\ cLog' = Append(cLog, StreamError)
    /\ UNCHANGED <<cPc, lockVars, uVars, sVars>>

\* stream.next().await yields None: the loop ends and main returns Ok(()).
ClientNextNone ==
    /\ cPc = "consuming"
    /\ rx[1] \in {"ended", "dropped"}
    /\ Len(ClientItems) = Len(received[1])
    /\ cPc' = "done"
    /\ UNCHANGED <<cLog, lockVars, uVars, sVars>>

Next ==
    \/ \E u \in Unaries, req \in UnaryRequests : UnaryCall(u, req)
    \/ \E u \in Unaries : UnaryReturn(u)
    \/ \E s \in Streams, req \in StreamRequests : StreamCall(s, req)
    \/ \E s \in Streams : StreamReturn(s)
    \/ \E s \in Streams : ProducerSend(s)
    \/ \E s \in Streams : ProducerWake(s)
    \/ \E s \in Streams : ConsumerRecv(s)
    \/ \E s \in Streams : ConsumerEnd(s)
    \/ \E s \in Streams : ConsumerDisconnect(s)
    \/ Tick

Spec == Init /\ [][Next]_vars

UnaryNext ==
    \/ \E u \in Unaries, req \in UnaryRequests : UnaryCall(u, req)
    \/ \E u \in Unaries : UnaryReturn(u)

UnarySpec == Init /\ [][UnaryNext]_vars

StreamNext ==
    \/ \E s \in Streams, req \in StreamRequests : StreamCall(s, req)
    \/ \E s \in Streams : StreamReturn(s)
    \/ \E s \in Streams : ProducerSend(s)
    \/ \E s \in Streams : ProducerWake(s)
    \/ \E s \in Streams : ConsumerRecv(s)
    \/ \E s \in Streams : ConsumerEnd(s)
    \/ \E s \in Streams : ConsumerDisconnect(s)
    \/ Tick

\* Streaming calls side by side, no unary call.
ConcurrentSpec == Init /\ [][StreamNext]_vars

SoloNext ==
    \/ \E s \in SoloStreams, req \in StreamRequests : StreamCall(s, req)
    \/ \E s \in SoloStreams : StreamReturn(s)
    \/ \E s \in SoloStreams : ProducerSend(s)
    \/ \E s \in SoloStreams : ProducerWake(s)
    \/ \E s \in SoloStreams : ConsumerRecv(s)
    \/ \E s \in SoloStreams : ConsumerEnd(s)
    \/ \E s \in SoloStreams : ConsumerDisconnect(s)
    \/ Tick

\* A streaming call with its producer and its consumer, nothing else running.
StreamSpec == Init /\ [][SoloNext]_vars

MixedNext ==
    \/ \E u \in Unaries, req \in UnaryRequests : UnaryCall(u, req)
    \/ \E u \in Unaries : UnaryReturn(u)
    \/ SoloNext

\* Unary calls side by side with a streaming call.
MixedSpec == Init /\ [][MixedNext]_vars

\* The runtime runs every task that is ready, the clock advances, and the
\* transport of call s keeps polling its stream.
Fair(s) ==
    /\ WF_vars(StreamReturn(s))
    /\ WF_vars(ProducerSend(s))
    /\ WF_vars(ProducerWake(s))
    /\ WF_vars(ConsumerRecv(s))
    /\ WF_vars(ConsumerEnd(s))

\* Every call is served fairly.
FairStreamSpec == StreamSpec /\ WF_vars(Tick) /\ \A s \in SoloStreams : Fair(s)

\* The runtime runs the producer tasks and the clock advances; the handler's
\* return and the consumers are left to do anything or nothing.
ProducerFairSpec ==
    /\ StreamSpec
    /\ WF_vars(Tick)
    /\ \A s \in SoloStreams : WF_vars(ProducerSend(s)) /\ WF_vars(ProducerWake(s))

\* Only the last call is served fairly: the earlier calls may stall, be read
\* slowly or not at all, or lose their caller.
IsolationSpec == ConcurrentSpec /\ WF_vars(Tick) /\ Fair(MaxStreams)

ClientNext ==
    \/ ClientCallUnary
    \/ ServeUnary
    \/ UnaryReturn(1)
    \/ ClientUnaryReturn
    \/ ClientUnaryError
    \/ ServeStream
    \/ StreamReturn(1)
    \/ ClientStreamOpen
    \/ ClientStreamError
    \/ ProducerSend(1)
    \/ ProducerWake(1)
    \/ Tick
    \/ ConsumerRecv(1)
    \/ ConsumerEnd(1)
    \/ ConsumerDisconnect(1)
    \/ ClientNextOk
    \/ ClientNextErr
    \/ ClientNextNone

\* The client of client.rs against the server: the server's tasks and the
\* client's loop keep running; the connection may be lost at any time.
ClientSpec ==
    /\ Init /\ [][ClientNext]_vars
    /\ WF_vars(Tick) /\ Fair(1)
    /\ WF_vars(ClientNextOk) /\ WF_vars(ClientNextNone)

\* ================================================================ claims
\* The key a request is meant to resolve to: "<student_id>_<exam_id>".
CombinedKey(req) == req.student_id \o <<"_">> \o req.exam_id

\* Whether the sequence part occurs as a contiguous run inside whole.
Contains(whole, part) ==
    \E i \in 0..(Len(whole) - Len(part)) :
        SubSeq(whole, i + 1, i + Len(part)) = part

UnaryDone == {u \in Unaries : uPc[u] = "done"}

\* C1: a finished GetExamResult call whose combined key is a seeded key has
\* returned exactly the record seeded for that key; every other finished
\* call has returned a NotFound status whose message contains the combined
\* key; there is no third outcome.
C1_UnaryLookup ==
    \A u \in UnaryDone :
        LET k == CombinedKey(uReq[u]) IN
        IF k = SeedKey1 THEN uResp[u] = [ok |-> TRUE, value |-> SeedRecord1]
        ELSE IF k = SeedKey2 THEN uResp[u] = [ok |-> TRUE, value |-> SeedRecord2]
        ELSE /\ uResp[u].ok = FALSE
             /\ uResp[u].code = "NotFound"
             /\ Contains(uResp[u].message, k)

\* C1 witness: a hit on 123_math101 and a miss on 999_math101 have returned.
C1_Witness ==
    \E u, v \in UnaryDone :
        /\ uReq[u] = GetExamResultRequest(Id123, Math101)
        /\ uResp[u].ok
        /\ uReq[v] = GetExamResultRequest(Id999, Math101)
        /\ uResp[v].code = "NotFound"
        /\ Contains(uResp[v].message,
                    <<"9", "9", "9", "_", "m", "a", "t", "h", "1", "0", "1">>)

\* Every call that has computed its key, with the request it came from.
KeyedCalls ==
    {[req |-> uReq[u], key |-> uKey[u]] : u \in {v \in Unaries : uPc[v] # "idle"}}
    \cup {[req |-> sReq[s], key |-> sKey[s]] : s \in {t \in Streams : pPc[t] # "none"}}

\* C4: the combination of (student_id, exam_id) into a key is injective: two
\* calls, unary or streaming, with distinct request pairs never hold the
\* same key.
C4_KeyInjective ==
    \A a, b \in KeyedCalls : a.req # b.req => a.key # b.key

\* ------------------------------------------------------ stream observers
DigitValue(c) == CASE c = "1" -> 1 [] c = "2" -> 2 [] c = "3" -> 3 [] OTHER -> 0

\* The k of the "(k/3)" that ends the grade of a streamed item.
Ordinal(item) == LET g == item.value.grade IN DigitValue(g[Len(g) - 3])

Labels(items) == [i \in 1..Len(items) |-> Ordinal(items[i])]

CountUp(n) == [i \in 1..n |-> i]

IsPrefix(a, b) == Len(a) <= Len(b) /\ a = SubSeq(b, 1, Len(a))

Started == {s \in Streams : pPc[s] # "none"}

\* The three elements a call with this request is meant to deliver.
ExpectedItems(req) ==
    [i \in 1..3 |->
        [ok |-> TRUE,
         value |-> [student_name |-> "Streamed", subject |-> "Simulation",
                    marks_obtained |-> 90, total_marks |-> 100,
                    grade |-> MsgPrefix(i) \o CombinedKey(req) \o MsgSuffix(i)]]]

\* C2 (safety): the ordinal labels the consumer has received are 1, 2, ..
\* in that order, at most 3 of them, and a consumer that has seen the
\* stream close without disconnecting has received 1, 2, 3.
C2_Ordered ==
    \A s \in Streams :
        /\ Len(received[s]) <= 3
        /\ Labels(received[s]) = CountUp(Len(received[s]))
        /\ rx[s] = "ended" => Labels(received[s]) = <<1, 2, 3>>

\* C2: under any interleaving the received labels are strictly increasing
\* from 1 and at most 3; a consumer that never disconnects and keeps
\* reading eventually has received 1/3, 2/3, 3/3 and sees the stream close.
C2_OrderedAndComplete ==
    /\ []C2_Ordered
    /\ \A s \in Streams :
         [](sResp[s] # Pending =>
              <>(rx[s] = "dropped"
                 \/ (rx[s] = "ended" /\ Labels(received[s]) = <<1, 2, 3>>)))

\* C2 witness: a consumer has read all three elements and seen the closure.
C2_Witness ==
    \E s \in Streams : rx[s] = "ended" /\ Labels(received[s]) = <<1, 2, 3>>

\* C3 as stated: once the consumer has disconnected after receiving k
\* elements, the producer has sent at most k + 1 elements in total.
C3_AtMostOneAhead ==
    \A s \in Streams : rx[s] = "dropped" => sent[s] <= Len(received[s]) + 1

\* What the producer of s may do in a step once the receiving end is gone:
\* hand over nothing, start no new sleep, and leave the send only by ending.
QuietAfterDisconnect(s) ==
    rx[s] = "dropped" =>
        /\ sent'[s] = sent[s]
        /\ chan'[s] = << >>
        /\ sleepLeft'[s] <= sleepLeft[s]
        /\ pPc'[s] = "sleep" => pPc[s] = "sleep"
        /\ (pPc[s] = "send" /\ pPc'[s] # "send") => pPc'[s] = "done"
        /\ pPc[s] = "done" => pPc'[s] = "done"

\* C3 (amended): once the consumer has disconnected after receiving k < 3
\* elements, the producer has sent at most 3 elements in total and at most
\* the channel capacity more than k; from then on it sends nothing, starts
\* no new pacing sleep (the one in progress has at most one interval left),
\* and its task ends at its next send attempt.
C3_StopsAfterDisconnect ==
    /\ [](\A s \in Streams :
            rx[s] = "dropped" =>
                /\ sent[s] <= NumResults
                /\ sent[s] <= Len(received[s]) + ChannelCapacity
                /\ sleepLeft[s] <= PacingInterval)
    /\ [][\A s \in Streams : QuietAfterDisconnect(s)]_vars
    /\ \A s \in Streams : [](rx[s] = "dropped" => <>(pPc[s] = "done"))

\* C3 witness: the consumer left having read nothing, the producer had
\* sent two elements by then and ended at its third attempt.
C3_Witness ==
    \E s \in Streams :
        /\ rx[s] = "dropped"
        /\ received[s] = << >>
        /\ sent[s] = 2
        /\ failed[s]
        /\ pPc[s] = "done"

\* What a step may do to call s around a failed delivery.
StopsOnFailure(s) ==
    /\ rx[s] \in {"dropped", "ended"} => (chan'[s] = chan[s] /\ sent'[s] = sent[s])
    /\ (rx[s] = "dropped" /\ pPc[s] = "send" /\ pPc'[s] # "send") =>
           (failed'[s] /\ pPc'[s] = "done")
    /\ failed[s] => (failed'[s] /\ pPc'[s] = "done" /\ idx'[s] = idx[s])

\* C5: once the receiving end of a channel has been dropped no element is
\* handed to that channel; the producer's next delivery attempt fails, and
\* after the failure the producer attempts nothing more, has not completed
\* its sequence, and has ended.
C5_StopsOnFailedSend ==
    /\ [](\A s \in Streams :
            failed[s] => (pPc[s] = "done" /\ rx[s] = "dropped"
                          /\ sent[s] = idx[s] - 1 /\ sent[s] < NumResults))
    /\ [][\A s \in Streams : StopsOnFailure(s)]_vars

\* C5 witness: a producer has ended on the failed delivery of its second
\* element.
C5_Witness ==
    \E s \in Streams : failed[s] /\ idx[s] = 2 /\ sent[s] = 1 /\ pPc[s] = "done"

\* C6: a streaming call never surfaces an error: every item in a channel or
\* taken from it is an Ok record, the handler's answer is Ok with the stream
\* whatever the request, also after the consumer has disconnected.
C6_NoErrorSurfaced ==
    \A s \in Streams :
        /\ sResp[s] # Pending => sResp[s] = [ok |-> TRUE, value |-> "ReceiverStream"]
        /\ \A i \in 1..Len(chan[s]) : chan[s][i].ok
        /\ \A i \in 1..Len(received[s]) : received[s][i].ok

\* C6 witness: a call for a key the store does not hold was answered Ok,
\* delivered an element, lost its consumer and its producer ended on the
\* failed delivery.
C6_Witness ==
    \E s \in Streams :
        /\ sKey[s] \notin DOMAIN exam_data
        /\ sResp[s].ok
        /\ Len(received[s]) >= 1
        /\ rx[s] = "dropped"
        /\ failed[s]

\* C7 (safety): what the consumer of a call has received, followed by what
\* its channel holds, is a prefix of that call's own three elements.
C7_OwnElements ==
    \A s \in Started :
        /\ IsPrefix(received[s], ExpectedItems(sReq[s]))
        /\ rx[s] = "open" => IsPrefix(received[s] \o chan[s], ExpectedItems(sReq[s]))

\* C7: with several streaming calls running, each consumer receives its own
\* elements in order and never another call's, and the last call delivers
\* all 3 elements to a consumer that stays, whatever the earlier calls and
\* their consumers do.
C7_Independent ==
    /\ []C7_OwnElements
    /\ [](sResp[MaxStreams] # Pending =>
            <>(rx[MaxStreams] = "dropped"
               \/ received[MaxStreams] = ExpectedItems(sReq[MaxStreams])))

\* C7 witness: two calls with different keys, the first lost its consumer
\* before reading anything, the second delivered all three elements.
C7_Witness ==
    /\ MaxStreams > 1
    /\ sKey[1] # sKey[MaxStreams]
    /\ rx[1] = "dropped"
    /\ received[1] = << >>
    /\ received[MaxStreams] = ExpectedItems(sReq[MaxStreams])

FirstIdle(u) == uPc[u] = "idle" /\ \A v \in Unaries : v < u => uPc[v] # "idle"

FirstFree(s) == pPc[s] = "none" /\ \A t \in Streams : t < s => pPc[t] # "none"

\* C8: accepting a call never waits for a stream in progress: a streaming
\* handler that has spawned its producer can return at once, a unary call
\* in progress can return, and a new unary or streaming call can be
\* dispatched, whatever the producers of earlier calls are doing.
C8_AcceptNeverBlocks ==
    /\ \A s \in Streams :
         (pPc[s] # "none" /\ sResp[s] = Pending) => ENABLED StreamReturn(s)
    /\ \A u \in Unaries : uPc[u] = "reading" => ENABLED UnaryReturn(u)
    /\ \A u \in Unaries :
         FirstIdle(u) => \A req \in UnaryRequests : ENABLED UnaryCall(u, req)
    /\ \A s \in Streams :
         FirstFree(s) => \A req \in StreamRequests : ENABLED StreamCall(s, req)

\* C8 witness: with the first stream asleep after its first element, a
\* second streaming call has returned before its producer sent anything and
\* a unary call has returned.
C8_Witness ==
    /\ MaxStreams > 1
    /\ pPc[1] = "sleep" /\ sent[1] = 1
    /\ sResp[2] # Pending /\ sent[2] = 0 /\ pPc[2] = "send"
    /\ \E u \in Unaries : uPc[u] = "done"

\* C9: the store is never mutated after startup: its contents equal the
\* seed data and no write access is held, whatever calls have run.
C9_StoreReadOnly ==
    /\ exam_data = SeedData
    /\ writer = FALSE

\* C9 witness: a hit and a miss have returned, one stream has completed and
\* another lost its consumer.
C9_Witness ==
    /\ \E u, v \in UnaryDone : uResp[u].ok /\ ~uResp[v].ok
    /\ \E s, t \in Streams : rx[s] = "ended" /\ rx[t] = "dropped" /\ failed[t]

\* What a producer step may do to a full channel: nothing.
WaitsWhenFull(s) == Len(chan[s]) >= ChannelCapacity => Len(chan'[s]) <= Len(chan[s])

C11_StreamIgnoresStore ==
    /\ readers = 0
    /\ \A s \in Started :
         /\ rx[s] = "ended" => received[s] = ExpectedItems(sReq[s])
         /\ \A i \in 1..Len(received[s]) :
              \A k \in DOMAIN exam_data : received[s][i].value # exam_data[k]

\* C11 witness: a stream for a key the store holds was consumed to its end.
C11_Witness ==
    \E s \in Started :
        /\ CombinedKey(sReq[s]) \in DOMAIN exam_data
        /\ rx[s] = "ended"
        /\ Len(received[s]) = 3

\* C12: pacing. The ticks a producer has slept never exceed one pacing
\* interval per element handed over, and at the moment an element is handed
\* to the channel the producer has slept a full interval for every element
\* before it: two consecutive hand-overs are at least one interval apart.
C12_Paced ==
    /\ [](\A s \in Streams : slept[s] <= sent[s] * PacingInterval)
    /\ [][\A s \in Streams :
            sent'[s] # sent[s] => slept[s] = sent[s] * PacingInterval]_vars

\* C12 witness: the second element has just been handed over, one interval
\* after the first.
C12_Witness ==
    \E s \in Streams :
        /\ sent[s] = 2
        /\ slept[s] = PacingInterval
        /\ pPc[s] = "sleep"
        /\ sleepLeft[s] = PacingInterval

\* 0 <= marks_obtained <= total_marks
InRange(r) == 0 <= r.marks_obtained /\ r.marks_obtained <= r.total_marks

\* C13: every record a caller gets from either operation, and every record
\* still on its way to a caller, has 0 <= marks_obtained <= total_marks.
C13_MarksInRange ==
    /\ \A u \in Unaries : uResp[u].ok => InRange(uResp[u].value)
    /\ \A s \in Streams :
         /\ \A i \in 1..Len(received[s]) :
              received[s][i].ok => InRange(received[s][i].value)
         /\ \A i \in 1..Len(chan[s]) :
              chan[s][i].ok => InRange(chan[s][i].value)

\* C13 witness: both seeded records have been returned by unary calls and a
\* streaming call has delivered all its synthetic elements.
C13_Witness ==
    /\ \E u, v \in Unaries :
         /\ uPc[u] = "done" /\ uResp[u] = OkOf(SeedRecord1)
         /\ uPc[v] = "done" /\ uResp[v] = OkOf(SeedRecord2)
    /\ \E s \in Streams : Len(received[s]) = NumResults

\* C14 (state): the consumer has received the labels 1, 2, .. in order, not
\* more of them than the producer has handed over, the producer has handed
\* over at most 3, and while the receiving end is open what was received
\* followed by what the channel holds is exactly the labels 1 .. sent.
C14_Prefixes ==
    \A s \in Started :
        /\ Len(received[s]) <= sent[s]
        /\ sent[s] <= 3
        /\ IsPrefix(Labels(received[s]), <<1, 2, 3>>)
        /\ rx[s] = "open" => Labels(received[s] \o chan[s]) = CountUp(sent[s])

\* C14 (step): an element enters the channel only by a counted hand-over,
\* the element handed over as number n is the n-th of the fixed sequence,
\* the position in the sequence never moves back, and after a failed send
\* nothing is handed over any more.
C14_NextInSequence ==
    \A s \in Started :
        /\ sent'[s] # sent[s] =>
             /\ sent'[s] = sent[s] + 1
             /\ ~failed[s]
             /\ chan'[s] = Append(chan[s], ExpectedItems(sReq[s])[sent'[s]])
        /\ Len(chan'[s]) > Len(chan[s]) => sent'[s] = sent[s] + 1
        /\ idx'[s] >= idx[s]
        /\ failed[s] => failed'[s] /\ sent'[s] = sent[s] /\ chan'[s] = chan[s]

\* C14: at every point of a stream the elements handed to the channel and
\* the elements received are each a prefix of 1/3, 2/3, 3/3: none skipped,
\* repeated, re-sent after a failed send, or restarted.
C14_NonRestartable == []C14_Prefixes /\ [][C14_NextInSequence]_vars

\* C14 witness: a send failed after two elements were handed over and one
\* was received; the producer has ended without a third.
C14_Witness ==
    \E s \in Started :
        /\ failed[s]
        /\ pPc[s] = "done"
        /\ sent[s] = 2
        /\ Labels(received[s]) = <<1>>

\* C15: a producer about to send always finds room in the channel, and
\* every spawned producer eventually ends (dropping its sending end),
\* whether the consumer reads, stalls, never reads or disconnects.
C15_ProducerTerminates ==
    /\ [](\A s \in Streams : pPc[s] = "send" => Len(chan[s]) < ChannelCapacity)
    /\ \A s \in Streams : [](pPc[s] # "none" => <>(pPc[s] = "done"))

\* C15 witness: the producer has ended after a full run while the consumer
\* has neither read anything nor disconnected; all 3 elements sit in the
\* channel.
C15_Witness ==
    \E s \in Streams :
        /\ pPc[s] = "done"
        /\ ~failed[s]
        /\ rx[s] = "open"
        /\ received[s] = << >>
        /\ Len(chan[s]) = NumResults

\* The unary calls that hold read access to the store.
Reading == {u \in Unaries : uPc[u] = "reading"}

\* C16: the store is only ever held for shared reading, by exactly the
\* unary calls between their lookup and their return (so a returned call,
\* hit or miss, holds nothing); a call that holds read access can return
\* and a further unary call can take read access, however many others hold
\* it and whatever the streaming calls are doing: no call waits on the store.
C16_SharedReadsNoDeadlock ==
    /\ writer = FALSE
    /\ readers = Cardinality(Reading)
    /\ \A u \in Reading : ENABLED UnaryReturn(u)
    /\ \A u \in Unaries :
         FirstIdle(u) => \E req \in UnaryRequests : ENABLED UnaryCall(u, req)

\* C16 witness: two unary calls hold read access at once, one for a seeded
\* key and one for a missing key, while a producer is asleep between sends.
C16_Witness ==
    /\ \E u, v \in Reading :
         /\ uKey[u] \in DOMAIN exam_data
         /\ uKey[v] \notin DOMAIN exam_data
    /\ readers = 2
    /\ \E s \in Streams : pPc[s] = "sleep" /\ sent[s] = 1

\* C17 (state): a producer that has handed over the 3rd element and has not
\* yet slept 3 full intervals is still alive in its sleep; one that ended
\* after a full run has slept 3 intervals, not 2; and a consumer that has
\* seen the closure saw it after the producer's 3rd interval.
C17_SleepsAfterLast ==
    \A s \in Started :
        /\ (sent[s] = 3 /\ slept[s] < 3 * PacingInterval) => pPc[s] = "sleep"
        /\ (pPc[s] = "done" /\ ~failed[s]) =>
               sent[s] = 3 /\ slept[s] = 3 * PacingInterval
        /\ rx[s] = "ended" => slept[s] = 3 * PacingInterval

\* C17 (step): the 3rd element is enqueued when 2 intervals have been
\* slept, and the closure is seen only when 3 have been.
C17_ClosureAfterInterval ==
    \A s \in Started :
        /\ (sent[s] = 2 /\ sent'[s] = 3) => slept[s] = 2 * PacingInterval
        /\ (rx[s] = "open" /\ rx'[s] = "ended") => slept[s] = 3 * PacingInterval

\* C17: after the last element the producer waits one more full pacing
\* interval before it ends and drops the sending end, so the closure is
\* observable no earlier than one interval after the 3rd element was
\* enqueued and a full run keeps the task alive for 3 intervals.
C17_FinalInterval == []C17_SleepsAfterLast /\ [][C17_ClosureAfterInterval]_vars

\* C17 witness: the consumer holds all 3 elements while the producer is at
\* the start of its last sleep; the stream is not closed yet.
C17_Witness ==
    \E s \in Started :
        /\ sent[s] = 3
        /\ Len(received[s]) = 3
        /\ rx[s] = "open"
        /\ pPc[s] = "sleep"
        /\ sleepLeft[s] = PacingInterval
        /\ slept[s] = 2 * PacingInterval

\* C18 (state): a streaming call exists only once the unary call has
\* returned successfully and its response was printed; a client whose unary
\* call failed has issued no streaming call; the client prints the elements
\* in the order they arrived; and a client that ended normally has seen the
\* stream close and has printed every element that arrived.
C18_ClientOrder ==
    /\ pPc[1] # "none" =>
         /\ uPc[1] = "done" /\ uResp[1].ok
         /\ cLog # << >> /\ cLog[1] = uResp[1]
    /\ (cPc = "failed" /\ cLog = << >>) => pPc[1] = "none"
    /\ IsPrefix(ClientItems, received[1])
    /\ cPc = "done" =>
         /\ rx[1] \in {"ended", "dropped"}
         /\ ClientItems = received[1]

\* C18 (step): printing an Err item leaves the client in its loop; the
\* client ends normally only from its loop, on a closed stream, printing
\* nothing more; and a client that has failed stays failed and starts no
\* call.
C18_ClientStep ==
    /\ (Len(cLog') > Len(cLog) /\ ~cLog'[Len(cLog')].ok) =>
           cPc = "consuming" /\ cPc' = "consuming"
    /\ (cPc # "done" /\ cPc' = "done") =>
           /\ cPc = "consuming"
           /\ rx[1] \in {"ended", "dropped"}
           /\ cLog' = cLog
    /\ cPc = "failed" =>
           /\ cPc' = "failed" /\ cLog' = cLog
           /\ pPc[1] = "none" => pPc'[1] = "none"

\* C18: the client issues the streaming call only after the unary call has
\* returned successfully (a failed unary call ends it without a streaming
\* call), consumes the elements in arrival order, goes on past an Err item,
\* and ends normally exactly when the stream closes, with or without all 3
\* elements: it does not end before, and once it holds the stream it
\* eventually ends.
C18_ClientSequence ==
    /\ []C18_ClientOrder
    /\ [][C18_ClientStep]_vars
    /\ [](cPc = "consuming" => <>(cPc = "done"))

\* C18 witness: the client has ended normally after printing the unary
\* response, one stream element and a stream error: the connection was lost
\* before the other two elements arrived.
C18_Witness ==
    /\ cPc = "done"
    /\ Len(cLog) = 3
    /\ cLog[1] = OkOf(SeedRecord1)
    /\ cLog[2] = ExpectedItems(ClientStreamRequest)[1]
    /\ cLog[3] = StreamError

====
